---- MODULE Spec2Model ----
(***************************************************************************)
(* TinyAudioBoot (src/TinyAudioBoot/TinyAudioBoot.c): the audio bootloader *)
(* of an ATtiny85.  The model holds the flash array (paged, 16-bit words), *)
(* the EEPROM, the RAM objects start_appl_main and FrameData, the dwell    *)
(* counter of the entry decision and the position of the controller.       *)
(* One action stands for one pass of a_main's command loop (reception of a *)
(* frame, dispatch, clearing of the command byte), one for the entry       *)
(* decision and one for a reset of the device.                             *)
(***************************************************************************)
EXTENDS Integers, Sequences, FiniteSets, TLC

(* ------------------------------------------------------------------------ *)
(* Program constants                                                        *)
(* ------------------------------------------------------------------------ *)
SPM_PAGESIZE == 64
PAGESIZE == SPM_PAGESIZE
BOOTLOADER_ADDRESS == 7104                    \* 0x1BC0
BOOTLOADER_STARTADDRESS == BOOTLOADER_ADDRESS
BOOTLOADER_ENDADDRESS == 8192                 \* 0x2000, size of the flash
RJMP == 49151                                 \* 0xC000 - 1
COMMAND == 0
PAGEINDEXLOW == 1
PAGEINDEXHIGH == 2
LENGTHLOW == 3
LENGTHHIGH == 4
CRCLOW == 5
CRCHIGH == 6
DATAPAGESTART == 7
FRAMESIZE == PAGESIZE + DATAPAGESTART
NOCOMMAND == 0
TESTCOMMAND == 1
PROGCOMMAND == 2
RUNCOMMAND == 3
EEPROMCOMMAND == 4
EXITCOMMAND == 5
\* sizeof (start_appl_main): a function pointer of the AVR is 2 bytes
PointerSize == 2
FLASH_RESET_ADDR == 0
BOOTLOADER_FUNC_ADDRESS == BOOTLOADER_STARTADDRESS - PointerSize
\* the count of a_main's wait loop ("pretty arbitrary count")
DwellThreshold == 3000000
\* eeprom_write: addresses below 512 are taken as they are
EepromSize == 512

\* uint16_t / size_t / void* arithmetic of the AVR is modulo 2^16, uint8_t modulo 2^8
Mod16 == 2^16
Mod8 == 2^8
ErasedWord == Mod16 - 1
NumPages == BOOTLOADER_ENDADDRESS \div SPM_PAGESIZE
WordsPerPage == SPM_PAGESIZE \div 2

\* the word the linker places at flash address 0 (section .bootreset)
resetVector == RJMP + BOOTLOADER_ADDRESS \div 2
\* the word boot_program_page puts in place of the first word of page 0
BootVectorWord == 49152 + (BOOTLOADER_ADDRESS \div 2) - 1

(* ------------------------------------------------------------------------ *)
(* Bounds of the model and the inputs drawn from them                       *)
(* ------------------------------------------------------------------------ *)
\* number of distinct page payloads the host sends
NumPayloads == 2

\* The first word of payload j: an RJMP k, the application's reset vector.
FirstWordOf(j) == 49152 + (IF j % 2 = 1 THEN 17 * j - 2 ELSE 4096 - j \div 2)
\* The last word of payload j; payload 1 ends in a null word.
LastWordOf(j) == ((j - 1) * 4951) % Mod16

\* The 64 payload bytes of payload j (little-endian words).
PayloadBytes(j) ==
    [i \in 0..(PAGESIZE - 1) |->
        IF i = 0 THEN FirstWordOf(j) % Mod8
        ELSE IF i = 1 THEN FirstWordOf(j) \div Mod8
        ELSE IF i = PAGESIZE - 2 THEN LastWordOf(j) % Mod8
        ELSE IF i = PAGESIZE - 1 THEN LastWordOf(j) \div Mod8
        ELSE (i * 3 + j * 16) % Mod8]

Payloads == {PayloadBytes(j) : j \in 1..NumPayloads}

\* page numbers of the PROGCOMMAND frames: first page, last application page
\* (0x1B80), first bootloader page (0x1BC0), 0xFFC0, and 1024, whose product
\* with the page size is 2^16
ProgPages == {0, 110, 111, 1023, 1024}

\* The frame with the given fields, as the bytes receiveFrame leaves in FrameData.
MkFrame(cmd, page, len, crc, payload) ==
    [i \in 0..(FRAMESIZE - 1) |->
        IF i = COMMAND THEN cmd
        ELSE IF i = PAGEINDEXLOW THEN page % Mod8
        ELSE IF i = PAGEINDEXHIGH THEN page \div Mod8
        ELSE IF i = LENGTHLOW THEN len % Mod8
        ELSE IF i = LENGTHHIGH THEN len \div Mod8
        ELSE IF i = CRCLOW THEN crc % Mod8
        ELSE IF i = CRCHIGH THEN crc \div Mod8
        ELSE payload[i - DATAPAGESTART]]

\* (a frame for a page number that is rejected carries the first payload only)
ProgFrames ==
    {MkFrame(PROGCOMMAND, p, PAGESIZE, 0, pl) :
        p \in {q \in ProgPages : (SPM_PAGESIZE * q) % Mod16 < BOOTLOADER_ADDRESS},
        pl \in Payloads}
    \cup {MkFrame(PROGCOMMAND, p, PAGESIZE, 0, PayloadBytes(1)) : p \in ProgPages}
RunFrames == {MkFrame(RUNCOMMAND, 0, 0, 0, PayloadBytes(1))}
EepromFrames ==
    {MkFrame(EEPROMCOMMAND, p, l, 0, PayloadBytes(1)) : p \in {5}, l \in {2, PAGESIZE + 1}}
OtherFrames ==
    {MkFrame(c, 0, PAGESIZE, 0, PayloadBytes(1)) :
        c \in {NOCOMMAND, TESTCOMMAND, EXITCOMMAND, 6, 255}}

\* a byte read behind the end of FrameData (what the linker placed there)
StrayBytes == {0, 165}

\* number of consecutive passes of the wait loop that find the button pressed
DwellSamples == {0, DwellThreshold - 1, DwellThreshold, DwellThreshold + 1}

(* ------------------------------------------------------------------------ *)
(* State                                                                    *)
(* ------------------------------------------------------------------------ *)
VARIABLES
    pc,               \* "ENTRY_DECISION", "COMMAND_LOOP" or "EXIT_TO_APPLICATION"
    flash,            \* flash[page][word]: the program memory
    eeprom,           \* eeprom[address]: the data memory
    start_appl_main,  \* the function pointer in RAM (a word address)
    FrameData,        \* the frame buffer
    lPress,           \* a_main's dwell counter
    target,           \* the address control was transferred to (NoTarget: none)
    lastCommand,      \* history: the command byte of the frame last received
    installedWord,    \* history: first payload word of the page 0 now in flash
    sessionWord,      \* history: the same, if programmed since the last reset
    call,             \* history: the arguments of the last pgm_write_block call
    line,             \* the audio input: the signal, the time in timer ticks
    rx,               \* receiveFrame's locals and its position
    again,            \* history: the frame last dispatched repeated the one before
    EEPE,             \* EECR's bit EEPE: an EEPROM write is in progress
    lastWrite,        \* eeprom_write on its own: its arguments, its calls so far
    SREG_I,           \* SREG's bit I: interrupts are enabled (1) or not (0)
    spm               \* the flash routines on their own: the position in them

vars == <<pc, flash, eeprom, start_appl_main, FrameData, lPress, target,
          lastCommand, installedWord, sessionWord, call, line, rx, again,
          EEPE, lastWrite, SREG_I, spm>>

\* values outside the 16-bit range: no transfer of control, no word
NoTarget == Mod16
NoWord == Mod16
\* no call of pgm_write_block so far
NoCall == [flash_addr |-> 0, size |-> 0, block |-> <<>>]
\* reception taken as one step: no signal, no position in receiveFrame
NoLine == [cells |-> 0]
NoRx == [phase |-> "none"]
\* eeprom_write taken as part of the EEPROMCOMMAND step
NoWrite == [address |-> 0, data |-> 0, calls |-> 0]
NoSpm == [fn |-> "none"]

\* cli(): the I bit afterwards
cli == 0

(* ------------------------------------------------------------------------ *)
(* Flash                                                                    *)
(* ------------------------------------------------------------------------ *)
\* the page of the flash array a byte address selects (PCPAGE of the Z register)
PageOf(addr) == (addr \div SPM_PAGESIZE) % NumPages
WordOf(addr) == (addr % SPM_PAGESIZE) \div 2

\* pgm_read_word at an even byte address
pgm_read_word(f, addr) == f[PageOf(addr)][WordOf(addr)]
\* the byte at a byte address
FlashByte(f, addr) ==
    IF addr % 2 = 0 THEN pgm_read_word(f, addr) % Mod8
    ELSE pgm_read_word(f, addr - 1) \div Mod8

\* boot_page_erase followed by boot_page_write of a filled page buffer
ErasedPage == [i \in 0..(WordsPerPage - 1) |-> ErasedWord]
boot_page_erase(f, addr) == [f EXCEPT ![PageOf(addr)] = ErasedPage]
boot_page_write(f, addr, buffer) == [f EXCEPT ![PageOf(addr)] = buffer]

\* the words of the bootloader's own code (any fixed contents)
BootCodeWord(p, i) == 36864 + ((p * WordsPerPage + i) % 4096)

\* the flash of a device that holds the bootloader and no application
FreshFlash ==
    [p \in 0..(NumPages - 1) |->
        [i \in 0..(WordsPerPage - 1) |->
            IF p * SPM_PAGESIZE >= BOOTLOADER_ADDRESS THEN BootCodeWord(p, i)
            ELSE IF p = 0 /\ i = 0 THEN resetVector
            ELSE ErasedWord]]

(* ------------------------------------------------------------------------ *)
(* FlashProgrammer                                                          *)
(* ------------------------------------------------------------------------ *)
\* the 16-bit word boot_program_page assembles from buf[i], buf[i + 1]
PayloadWord(frame, i) ==
    (frame[DATAPAGESTART + i] + frame[DATAPAGESTART + i + 1] * Mod8) % Mod16

\* (variant: the offset 1 of the RJMP opcode left out)
SavedEntryNoOffset(w) == (w - 49152) % Mod16

\* step 1 of the vector patch: the application's entry, taken from its RJMP
SavedEntry(w) == (w - RJMP) % Mod16

\* the test that selects the word to patch
IsVectorWord(page, i) == page = 0 /\ i = 0

\* (variant: the payload written as it came)
FillWordUnpatched(page, i, w) == w

\* the word boot_program_page hands to boot_page_fill at byte offset i
FillWord(page, i, w) == IF IsVectorWord(page, i) THEN BootVectorWord ELSE w

\* (variant: the entry added to start_appl_main, += for =)
ProgramPageEntryAdded(f, sam, page, frame) ==
    LET buffer == [k \in 0..(WordsPerPage - 1) |->
                      FillWord(page, 2 * k, PayloadWord(frame, 2 * k))]
    IN  [flash |-> boot_page_write(boot_page_erase(f, page), page, buffer),
         sam   |-> IF IsVectorWord(page, 0)
                   THEN (sam + SavedEntry(PayloadWord(frame, 0))) % Mod16
                   ELSE sam]

\* boot_program_page: erase the page, fill the page buffer from the payload
\* (the first word of page 0 patched), write the page.  Yields the new flash
\* and the new start_appl_main.
boot_program_page(f, sam, page, frame) ==
    LET erased == boot_page_erase(f, page)
        buffer == [k \in 0..(WordsPerPage - 1) |->
                      FillWord(page, 2 * k, PayloadWord(frame, 2 * k))]
    IN  [flash |-> boot_page_write(erased, page, buffer),
         sam   |-> IF IsVectorWord(page, 0)
                   THEN SavedEntry(PayloadWord(frame, 0))
                   ELSE sam]

\* the address of pass idx of the loop of pgm_write_block
PassAddr(start_addr, idx) == (start_addr + 2 * idx) % Mod16

\* the passes whose address lies below flash_addr: they come first
PassesBelow(start_addr, flash_addr) ==
    Cardinality({m \in 0..(WordsPerPage - 1) : PassAddr(start_addr, m) < flash_addr})

\* the value of size after n words were taken from block (size_t, 16 bits)
SizeAfter(size, n) == (size - n * PointerSize) % Mod16

\* Whether pass idx takes its word from block: addr >= flash_addr && size > 0.
\* The passes that do are consecutive (addr grows with idx, and size, once 0,
\* stays 0), so pass idx sees size lowered once by each pass from the first
\* address at or after flash_addr on.
TakesBlockWord(idx, start_addr, flash_addr, size) ==
    /\ PassAddr(start_addr, idx) >= flash_addr
    /\ \A n \in 0..(idx - PassesBelow(start_addr, flash_addr)) : SizeAfter(size, n) > 0

\* the word *block++ yields on pass idx; behind the end of block a stray word
BlockWord(idx, start_addr, flash_addr, block, stray) ==
    LET bi == idx - PassesBelow(start_addr, flash_addr) + 1
    IN  IF bi <= Len(block) THEN block[bi] ELSE stray

\* the word pass idx hands to boot_program_page_fill
MergedWord(f, idx, start_addr, flash_addr, block, size, stray) ==
    IF TakesBlockWord(idx, start_addr, flash_addr, size)
    THEN BlockWord(idx, start_addr, flash_addr, block, stray)
    ELSE pgm_read_word(f, PassAddr(start_addr, idx))

\* the page-aligned start address pgm_write_block computes
StartAddr(flash_addr) == (flash_addr \div SPM_PAGESIZE) * SPM_PAGESIZE

\* (variant: the page erased before its words are read)
WriteBlockEraseFirst(f, flash_addr, block, size, stray) ==
    LET start_addr == StartAddr(flash_addr)
        erased == boot_page_erase(f, start_addr)
        buffer == [idx \in 0..(WordsPerPage - 1) |->
                      MergedWord(erased, idx, start_addr, flash_addr, block, size, stray)]
    IN  boot_page_write(erased, start_addr, buffer)

\* pgm_write_block: rebuild the page in the page buffer (the words of the flash
\* are read before the erase), then erase and write the page
pgm_write_block(f, flash_addr, block, size, stray) ==
    LET start_addr == StartAddr(flash_addr)
        buffer == [idx \in 0..(WordsPerPage - 1) |->
                      MergedWord(f, idx, start_addr, flash_addr, block, size, stray)]
    IN  boot_page_write(boot_page_erase(f, start_addr), start_addr, buffer)

(* ------------------------------------------------------------------------ *)
(* EepromWriter                                                             *)
(* ------------------------------------------------------------------------ *)
\* (variant: the address taken modulo the size of the EEPROM)
EepromCellWrapped(address) == address % EepromSize

\* the cell eeprom_write addresses
EepromCell(address) == IF address < EepromSize THEN address ELSE EepromSize - 1

eeprom_write(e, address, data) == [e EXCEPT ![EepromCell(address)] = data]

\* the byte buf[i] of the EEPROMCOMMAND loop; behind the frame buffer a stray byte
EepromDataByte(frame, i, stray) ==
    IF DATAPAGESTART + i < FRAMESIZE THEN frame[DATAPAGESTART + i] ELSE stray

\* The loop of the EEPROMCOMMAND branch: eeprom_write(address + i, buf[i]) for
\* i = 0 .. data_length - 1.  writes[lo, hi] is what the passes lo .. hi - 1
\* leave in the cells they address, a later pass overriding an earlier one.
EepromLoop(e, frame, address, data_length, stray) ==
    LET writes[lo \in 0..data_length, hi \in 0..data_length] ==
            IF hi <= lo THEN <<>>
            ELSE IF hi = lo + 1
            THEN EepromCell(address + lo) :> EepromDataByte(frame, lo, stray)
            ELSE LET mid == (lo + hi) \div 2
                 IN  writes[mid, hi] @@ writes[lo, mid]
        written == writes[0, data_length]
    IN  [c \in 0..(EepromSize - 1) |->
            IF c \in DOMAIN written THEN written[c] ELSE e[c]]

(* ------------------------------------------------------------------------ *)
(* BootloaderController                                                     *)
(* ------------------------------------------------------------------------ *)
\* the value of lPress when the wait loop is left, the button having read
\* pressed on k consecutive passes
DwellCount(k) == IF k > DwellThreshold THEN DwellThreshold + 1 ELSE k

\* (variant: the threshold included)
LeavesBootloaderInclusive(count) == count <= DwellThreshold

\* the test after the wait loop that sends the controller to exitBootloader
LeavesBootloader(count) == count < DwellThreshold

\* (variant: the entry read from the reset vector's address)
StoredEntryAtReset(f) == pgm_read_word(f, FLASH_RESET_ADDR)

\* what exitBootloader copies out of the flash
StoredEntry(f) == pgm_read_word(f, BOOTLOADER_FUNC_ADDRESS)

\* the byte address the PROGCOMMAND branch computes (uint16_t)
PageNumber(frame) == (frame[PAGEINDEXHIGH] * Mod8 + frame[PAGEINDEXLOW]) % Mod16
ProgAddress(frame) == (SPM_PAGESIZE * PageNumber(frame)) % Mod16

\* (variants: the bound included; the end of the flash taken as the bound)
ProgAllowedInclusive(address) == address <= BOOTLOADER_ADDRESS
ProgAllowedBelowEnd(address) == address < BOOTLOADER_ENDADDRESS

\* "prevent bootloader form self killing"
ProgAllowed(address) == address < BOOTLOADER_ADDRESS

\* the first address of the EEPROMCOMMAND branch (uint8_t)
EepromAddress(frame) == (SPM_PAGESIZE * frame[PAGEINDEXLOW]) % Mod8

\* (variant: the command byte left in the buffer)
KeepCommand(frame) == frame

ClearCommand(frame) == [frame EXCEPT ![COMMAND] = NOCOMMAND]

Init ==
    /\ pc = "ENTRY_DECISION"
    /\ flash = FreshFlash
    /\ eeprom = [a \in 0..(EepromSize - 1) |-> Mod8 - 1]
    /\ start_appl_main = 0
    /\ FrameData = [i \in 0..(FRAMESIZE - 1) |-> 0]
    /\ lPress = 0
    /\ target = NoTarget
    /\ lastCommand = NOCOMMAND
    /\ installedWord = NoWord
    /\ sessionWord = NoWord
    /\ call = NoCall
    /\ line = NoLine
    /\ rx = NoRx
    /\ again = FALSE
    /\ EEPE = FALSE
    /\ lastWrite = NoWrite
    /\ SREG_I = 0
    /\ spm = NoSpm

\* a_main up to the command loop: the wait loop, then exitBootloader when the
\* button was released early.  exitBootloader loads start_appl_main from the
\* flash and calls it unless it is null.
EntryDecision(k) ==
    /\ pc = "ENTRY_DECISION"
    /\ lPress' = DwellCount(k)
    /\ IF LeavesBootloader(lPress')
       THEN /\ start_appl_main' = StoredEntry(flash)
            /\ IF start_appl_main' # 0
               THEN pc' = "EXIT_TO_APPLICATION" /\ target' = start_appl_main'
               ELSE pc' = "COMMAND_LOOP" /\ target' = target
       ELSE /\ pc' = "COMMAND_LOOP"
            /\ UNCHANGED <<start_appl_main, target>>
    /\ UNCHANGED <<flash, eeprom, FrameData, lastCommand, installedWord,
                   sessionWord, call>>
    /\ UNCHANGED <<line, rx>>
    /\ UNCHANGED again
    /\ UNCHANGED <<EEPE, lastWrite>>
    /\ SREG_I' = IF pc' = "EXIT_TO_APPLICATION" THEN cli ELSE SREG_I
    /\ UNCHANGED spm

\* a frame with PROGCOMMAND
ProgCommand(frame) ==
    /\ pc = "COMMAND_LOOP"
    /\ frame[COMMAND] = PROGCOMMAND
    /\ LET address == ProgAddress(frame)
           r == boot_program_page(flash, start_appl_main, address, frame)
       IN  IF ProgAllowed(address)
           THEN /\ flash' = r.flash
                /\ start_appl_main' = r.sam
                /\ IF address = 0
                   THEN /\ installedWord' = PayloadWord(frame, 0)
                        /\ sessionWord' = PayloadWord(frame, 0)
                   ELSE UNCHANGED <<installedWord, sessionWord>>
           ELSE UNCHANGED <<flash, start_appl_main, installedWord, sessionWord>>
    /\ FrameData' = ClearCommand(frame)
    /\ lastCommand' = frame[COMMAND]
    /\ UNCHANGED <<pc, eeprom, lPress, target, call>>
    /\ UNCHANGED <<line, rx>>
    /\ again' = (frame[COMMAND] = lastCommand /\ ClearCommand(frame) = FrameData)
    /\ UNCHANGED <<EEPE, lastWrite>>
    /\ SREG_I' = IF ProgAllowed(ProgAddress(frame)) THEN cli ELSE SREG_I
    /\ UNCHANGED spm

\* a frame with RUNCOMMAND: runProgramm writes start_appl_main to the slot below
\* the bootloader and calls it
RunCommand(frame) ==
    /\ pc = "COMMAND_LOOP"
    /\ frame[COMMAND] = RUNCOMMAND
    /\ flash' = pgm_write_block(flash, BOOTLOADER_FUNC_ADDRESS,
                                <<start_appl_main>>, PointerSize, ErasedWord)
    /\ pc' = "EXIT_TO_APPLICATION"
    /\ target' = start_appl_main
    /\ FrameData' = frame
    /\ lastCommand' = frame[COMMAND]
    /\ call' = [flash_addr |-> BOOTLOADER_FUNC_ADDRESS, size |-> PointerSize,
                block |-> <<start_appl_main>>]
    /\ UNCHANGED <<eeprom, start_appl_main, lPress, installedWord, sessionWord>>
    /\ UNCHANGED <<line, rx>>
    /\ again' = (frame[COMMAND] = lastCommand /\ ClearCommand(frame) = FrameData)
    /\ UNCHANGED <<EEPE, lastWrite>>
    /\ SREG_I' = cli
    /\ UNCHANGED spm

\* a frame with EEPROMCOMMAND: the payload bytes go to the EEPROM, then
\* exitBootloader; the loop goes on only when the stored entry is null
\* (each eeprom_write waits for the write before it; the last write is over
\* long before the next frame is in)
EepromCommand(frame, stray) ==
    /\ pc = "COMMAND_LOOP"
    /\ frame[COMMAND] = EEPROMCOMMAND
    /\ eeprom' = EepromLoop(eeprom, frame, EepromAddress(frame),
                            frame[LENGTHLOW], stray)
    /\ start_appl_main' = StoredEntry(flash)
    /\ IF start_appl_main' # 0
       THEN /\ pc' = "EXIT_TO_APPLICATION"
            /\ target' = start_appl_main'
            /\ FrameData' = frame
       ELSE /\ FrameData' = ClearCommand(frame)
            /\ UNCHANGED <<pc, target>>
    /\ lastCommand' = frame[COMMAND]
    /\ UNCHANGED <<flash, lPress, installedWord, sessionWord, call>>
    /\ UNCHANGED <<line, rx>>
    /\ again' = (frame[COMMAND] = lastCommand /\ ClearCommand(frame) = FrameData)
    /\ UNCHANGED <<EEPE, lastWrite>>
    /\ SREG_I' = IF pc' = "EXIT_TO_APPLICATION" THEN cli ELSE SREG_I
    /\ UNCHANGED spm

\* a frame with any other command byte: no branch of the switch
OtherCommand(frame) ==
    /\ pc = "COMMAND_LOOP"
    /\ frame[COMMAND] \notin {PROGCOMMAND, RUNCOMMAND, EEPROMCOMMAND}
    /\ FrameData' = ClearCommand(frame)
    /\ lastCommand' = frame[COMMAND]
    /\ UNCHANGED <<pc, flash, eeprom, start_appl_main, lPress, target,
                   installedWord, sessionWord, call>>
    /\ UNCHANGED <<line, rx>>
    /\ again' = (frame[COMMAND] = lastCommand /\ ClearCommand(frame) = FrameData)
    /\ UNCHANGED <<EEPE, lastWrite>>
    /\ UNCHANGED <<SREG_I, spm>>

\* a reset of the device (power cycle, or the call of address 0, which holds the
\* jump to the bootloader): the memories stay, the RAM is initialised again;
\* sei() is used nowhere, so the bootloader is modelled as running with the I
\* bit clear, as a reset leaves it
Reset ==
    /\ pc # "ENTRY_DECISION"
    /\ pc' = "ENTRY_DECISION"
    /\ start_appl_main' = 0
    /\ FrameData' = [i \in 0..(FRAMESIZE - 1) |-> 0]
    /\ lPress' = 0
    /\ target' = NoTarget
    /\ lastCommand' = NOCOMMAND
    /\ sessionWord' = NoWord
    /\ call' = NoCall
    /\ UNCHANGED <<flash, eeprom, installedWord>>
    /\ UNCHANGED <<line, rx>>
    /\ again' = FALSE
    /\ UNCHANGED <<EEPE, lastWrite>>
    /\ SREG_I' = 0
    /\ UNCHANGED spm

Next ==
    \/ \E k \in DwellSamples : EntryDecision(k)
    \/ \E frame \in ProgFrames : ProgCommand(frame)
    \/ \E frame \in RunFrames : RunCommand(frame)
    \/ \E frame \in EepromFrames, stray \in StrayBytes : EepromCommand(frame, stray)
    \/ \E frame \in OtherFrames : OtherCommand(frame)
    \/ Reset

Spec == Init /\ [][Next]_vars

(* ------------------------------------------------------------------------ *)
(* pgm_write_block on its own                                               *)
(* ------------------------------------------------------------------------ *)
\* flash addresses handed to pgm_write_block: the start of the page at 0x80, the
\* two addresses behind it, the last three of that page, and the slot
MergeAddrs == {128, 129, 130, 189, 190, 191, BOOTLOADER_FUNC_ADDRESS}
\* sizes in bytes
MergeSizes == {0, 1, 2, 3, 4, SPM_PAGESIZE}
\* the words behind the end of block
StrayWords == {0, 42405}

\* block j of the given size in bytes: the words that hold its bytes
BlockOf(size, j) == [i \in 1..((size + 1) \div 2) |-> (j * 4369 + i * 257) % Mod16]

\* [flash_addr, flash_addr + size) lies within one page
InOnePage(flash_addr, size) == flash_addr + size <= StartAddr(flash_addr) + SPM_PAGESIZE

MergeCalls ==
    {c \in {[flash_addr |-> a, size |-> n, block |-> BlockOf(n, j)] :
                a \in MergeAddrs, n \in MergeSizes, j \in 1..NumPayloads} :
        InOnePage(c.flash_addr, c.size)}

\* the flash before the call: a fresh device, or one whose page at 0x80 was
\* programmed
MergeFlashes ==
    {FreshFlash,
     boot_program_page(FreshFlash, 0, 2 * SPM_PAGESIZE,
                       MkFrame(PROGCOMMAND, 2, PAGESIZE, 0, PayloadBytes(1))).flash}

MergeInit ==
    /\ pc = "MERGE_CALL"
    /\ flash \in MergeFlashes
    /\ call \in MergeCalls
    /\ eeprom = [a \in 0..(EepromSize - 1) |-> Mod8 - 1]
    /\ start_appl_main = 0
    /\ FrameData = [i \in 0..(FRAMESIZE - 1) |-> 0]
    /\ lPress = 0
    /\ target = NoTarget
    /\ lastCommand = NOCOMMAND
    /\ installedWord = NoWord
    /\ sessionWord = NoWord
    /\ line = NoLine
    /\ rx = NoRx
    /\ again = FALSE
    /\ EEPE = FALSE
    /\ lastWrite = NoWrite
    /\ SREG_I = 0
    /\ spm = NoSpm

\* the call pgm_write_block(call.flash_addr, call.block, call.size)
MergeWrite(stray) ==
    /\ pc = "MERGE_CALL"
    /\ flash' = pgm_write_block(flash, call.flash_addr, call.block, call.size, stray)
    /\ pc' = "MERGE_DONE"
    /\ UNCHANGED <<eeprom, start_appl_main, FrameData, lPress, target, lastCommand,
                   installedWord, sessionWord, call>>
    /\ UNCHANGED <<line, rx>>
    /\ UNCHANGED again
    /\ UNCHANGED <<EEPE, lastWrite>>
    /\ UNCHANGED <<SREG_I, spm>>

MergeNext == \E stray \in StrayWords : MergeWrite(stray)

SpecMerge == MergeInit /\ [][MergeNext]_vars

(* ------------------------------------------------------------------------ *)
(* SignalDecoder: receiveFrame on its own                                   *)
(* ------------------------------------------------------------------------ *)
\* The time is counted in ticks of TIMER (TCNT0, 8 bits).  The transmitter
\* sends line.cells bit cells of line.period ticks each, cell c from tick
\* c * period on: line.preamble cells of 0, the start bit 1, then the bits of
\* line.frame, most significant bit of each byte first.  The level of the pin
\* changes at the start of every cell, and in the middle of a cell that holds
\* a 1.  line.cell is the cell the time line.now lies in and line.level the
\* level at the start of that cell; behind the last cell the level stays.

\* the data cells receiveFrame takes
DataCells == FRAMESIZE * 8

\* bit i of a frame
FrameBit(frame, i) == (frame[i \div 8] \div (2 ^ (7 - (i % 8)))) % 2

\* the bit cell c of the signal holds
CellBit(ln, c) ==
    IF c < ln.preamble THEN 0
    ELSE IF c = ln.preamble THEN 1
    ELSE IF c <= ln.preamble + DataCells THEN FrameBit(ln.frame, c - ln.preamble - 1)
    ELSE 0

\* the tick of the transition in the middle of cell c
MidTime(ln, c) == c * ln.period + ln.period \div 2

\* the line at tick t >= line.now
AdvanceTo(ln, t) ==
    LET c == IF t \div ln.period < ln.cells THEN t \div ln.period ELSE ln.cells - 1
        passed == (c - ln.cell)
                  + Cardinality({j \in ln.cell..(c - 1) : CellBit(ln, j) = 1})
    IN  [ln EXCEPT !.now = t, !.cell = c, !.level = (ln.level + passed) % 2]

\* PINVALUE at tick t >= line.now
PinAt(ln, t) ==
    LET at == AdvanceTo(ln, t)
    IN  IF CellBit(at, at.cell) = 1 /\ t >= MidTime(at, at.cell)
        THEN 1 - at.level
        ELSE at.level

\* the next transition of the pin after line.now, if there is one
HasTransition(ln) ==
    \/ CellBit(ln, ln.cell) = 1 /\ ln.now < MidTime(ln, ln.cell)
    \/ ln.cell + 1 < ln.cells
TransitionTime(ln) ==
    IF CellBit(ln, ln.cell) = 1 /\ ln.now < MidTime(ln, ln.cell)
    THEN MidTime(ln, ln.cell)
    ELSE (ln.cell + 1) * ln.period

\* while (p == PINVALUE) ; : whether the loop ends, and the tick at which
EdgeComes(ln, p) == PinAt(ln, ln.now) # p \/ HasTransition(ln)
EdgeTime(ln, p) == IF PinAt(ln, ln.now) # p THEN ln.now ELSE TransitionTime(ln)

\* TIMER at tick t, TIMER having been set to 0 at tick timer0
TimerAt(timer0, t) == (t - timer0) % Mod8

\* while (TIMER < delayTime) ; : whether the loop ends, and the tick at which
DelayEnds(delayTime) == delayTime < Mod8
DelayEnd(timer0, t, delayTime) ==
    IF TimerAt(timer0, t) >= delayTime THEN t
    ELSE t + (delayTime - TimerAt(timer0, t))

\* delayTime = time * 3 / 4 / 8 (unsigned, 16 bits)
DelayTime(time) == (((time * 3) % Mod16) \div 4) \div 8

\* (variant: the bits packed least significant first)
ShiftInLow(byte, bit) == byte \div 2 + 128 * bit

\* FrameData[dataPointer] << 1, then |= 1 for a 1
ShiftIn(byte, bit) == ((byte * 2) % Mod8) + bit

\* (variant: the checksum field compared with the sum of the payload bytes)
ChecksumOk(frame) ==
    frame[CRCLOW] + Mod8 * frame[CRCHIGH]
        = ((frame[DATAPAGESTART] + frame[FRAMESIZE - 1]) % Mod16)

\* the value receiveFrame returns
receiveFrame(frame) == TRUE

\* bit periods in timer ticks (the last one is more than TIMER can count),
\* and lengths of the preamble in cells
BitPeriods == {2, 255, 256}
Preambles == {17, 18}

\* the frames sent: page frames, and a frame of 1 bits only
DecodeFrames ==
    {MkFrame(PROGCOMMAND, 258, PAGESIZE, 4660, pl) : pl \in Payloads}
        \cup {[i \in 0..(FRAMESIZE - 1) |-> Mod8 - 1]}

\* the signals: whole ones, and ones that end behind the frame's header
Lines ==
    {[period |-> T, preamble |-> pre, frame |-> f,
      cells |-> pre + 1 + DataCells, now |-> 0, cell |-> 0, level |-> 0] :
        T \in BitPeriods, pre \in Preambles, f \in DecodeFrames}
    \cup
    {[period |-> 4, preamble |-> 17, frame |-> f,
      cells |-> 17 + 1 + 8 * DATAPAGESTART, now |-> 0, cell |-> 0, level |-> 0] :
        f \in DecodeFrames}

\* what the frame buffer holds when receiveFrame is entered
StaleFrames == {[i \in 0..(FRAMESIZE - 1) |-> b] : b \in {0, Mod8 - 1}}

DecodeInit ==
    /\ pc = "COMMAND_LOOP"
    /\ line \in Lines
    /\ FrameData \in StaleFrames
    /\ rx = [phase |-> "first", n |-> 0, time |-> 0, delayTime |-> 0, p |-> 0,
             t |-> 0, k |-> 8, dataPointer |-> 0, counter |-> 0, timer0 |-> 0,
             old |-> FrameData[COMMAND]]
    /\ flash = FreshFlash
    /\ eeprom = [a \in 0..(EepromSize - 1) |-> Mod8 - 1]
    /\ start_appl_main = 0
    /\ lPress = DwellThreshold + 1
    /\ target = NoTarget
    /\ lastCommand = NOCOMMAND
    /\ installedWord = NoWord
    /\ sessionWord = NoWord
    /\ call = NoCall
    /\ again = FALSE
    /\ EEPE = FALSE
    /\ lastWrite = NoWrite
    /\ SREG_I = 0
    /\ spm = NoSpm

\* p = PINVALUE; while (p == PINVALUE) ; p = PINVALUE; TIMER = 0;
RxFirstEdge ==
    /\ rx.phase = "first"
    /\ EdgeComes(line, PinAt(line, line.now))
    /\ LET e == EdgeTime(line, PinAt(line, line.now))
       IN  /\ line' = AdvanceTo(line, e)
           /\ rx' = [rx EXCEPT !.phase = "sync", !.time = 0, !.n = 0,
                               !.p = PinAt(line, e), !.timer0 = e]
    /\ UNCHANGED <<pc, flash, eeprom, start_appl_main, FrameData, lPress, target,
                   lastCommand, installedWord, sessionWord, call>>
    /\ UNCHANGED again
    /\ UNCHANGED <<EEPE, lastWrite>>
    /\ UNCHANGED <<SREG_I, spm>>

\* one pass of the loop that measures the bit period
RxSyncEdge ==
    /\ rx.phase = "sync"
    /\ rx.n < 16
    /\ EdgeComes(line, rx.p)
    /\ LET e == EdgeTime(line, rx.p)
           t == TimerAt(rx.timer0, e)
       IN  /\ line' = AdvanceTo(line, e)
           /\ rx' = [rx EXCEPT !.t = t, !.timer0 = e, !.p = PinAt(line, e),
                               !.time = IF rx.n >= 8 THEN (@ + t) % Mod16 ELSE @,
                               !.n = @ + 1]
    /\ UNCHANGED <<pc, flash, eeprom, start_appl_main, FrameData, lPress, target,
                   lastCommand, installedWord, sessionWord, call>>
    /\ UNCHANGED again
    /\ UNCHANGED <<EEPE, lastWrite>>
    /\ UNCHANGED <<SREG_I, spm>>

\* delayTime = time * 3 / 4 / 8; while (TIMER < delayTime) ;
RxSyncDelay ==
    /\ rx.phase = "sync"
    /\ rx.n = 16
    /\ DelayEnds(DelayTime(rx.time))
    /\ line' = AdvanceTo(line, DelayEnd(rx.timer0, line.now, DelayTime(rx.time)))
    /\ rx' = [rx EXCEPT !.phase = "start", !.delayTime = DelayTime(rx.time)]
    /\ UNCHANGED <<pc, flash, eeprom, start_appl_main, FrameData, lPress, target,
                   lastCommand, installedWord, sessionWord, call>>
    /\ UNCHANGED again
    /\ UNCHANGED <<EEPE, lastWrite>>
    /\ UNCHANGED <<SREG_I, spm>>

\* one pass of the loop that waits for the start bit: a cell without a
\* transition in its middle
RxStartWait ==
    /\ rx.phase = "start"
    /\ rx.p = PinAt(line, line.now)
    /\ EdgeComes(line, rx.p)
    /\ DelayEnds(rx.delayTime)
    /\ LET e == EdgeTime(line, rx.p)
           d == DelayEnd(e, e, rx.delayTime)
       IN  /\ line' = AdvanceTo(line, d)
           /\ rx' = [rx EXCEPT !.p = PinAt(line, e), !.timer0 = d,
                               !.counter = (@ + 1) % Mod16]
    /\ UNCHANGED <<pc, flash, eeprom, start_appl_main, FrameData, lPress, target,
                   lastCommand, installedWord, sessionWord, call>>
    /\ UNCHANGED again
    /\ UNCHANGED <<EEPE, lastWrite>>
    /\ UNCHANGED <<SREG_I, spm>>

\* the start bit was seen: p = PINVALUE; k = 8; n = 0
RxStartBit ==
    /\ rx.phase = "start"
    /\ rx.p # PinAt(line, line.now)
    /\ rx' = [rx EXCEPT !.phase = "data", !.p = PinAt(line, line.now),
                        !.k = 8, !.n = 0]
    /\ UNCHANGED <<pc, flash, eeprom, start_appl_main, FrameData, lPress, target,
                   lastCommand, installedWord, sessionWord, call, line>>
    /\ UNCHANGED again
    /\ UNCHANGED <<EEPE, lastWrite>>
    /\ UNCHANGED <<SREG_I, spm>>

\* one pass of the loop that receives the data bits
RxDataBit ==
    /\ rx.phase = "data"
    /\ rx.n < DataCells
    /\ EdgeComes(line, rx.p)
    /\ DelayEnds(rx.delayTime)
    /\ LET e == EdgeTime(line, rx.p)
           p == PinAt(line, e)
           d == DelayEnd(e, e, rx.delayTime)
           t == PinAt(line, d)
           bit == IF p # t THEN 1 ELSE 0
       IN  /\ line' = AdvanceTo(line, d)
           /\ FrameData' = [FrameData EXCEPT
                               ![rx.dataPointer] = ShiftIn(@, bit)]
           /\ rx' = [rx EXCEPT !.t = t, !.p = t, !.timer0 = e,
                               !.counter = (@ + 1) % Mod16,
                               !.k = IF @ = 1 THEN 8 ELSE @ - 1,
                               !.dataPointer = IF rx.k = 1 THEN (@ + 1) % Mod8 ELSE @,
                               !.n = @ + 1]
    /\ UNCHANGED <<pc, flash, eeprom, start_appl_main, lPress, target,
                   lastCommand, installedWord, sessionWord, call>>
    /\ UNCHANGED again
    /\ UNCHANGED <<EEPE, lastWrite>>
    /\ UNCHANGED <<SREG_I, spm>>

\* return true; then a_main: the frame error loop if receiveFrame failed,
\* the dispatch otherwise
RxReturn ==
    /\ rx.phase = "data"
    /\ rx.n = DataCells
    /\ rx' = [rx EXCEPT !.phase = "returned"]
    /\ pc' = IF receiveFrame(FrameData) THEN "COMMAND_LOOP" ELSE "FRAME_ERROR"
    /\ UNCHANGED <<flash, eeprom, start_appl_main, FrameData, lPress, target,
                   lastCommand, installedWord, sessionWord, call, line>>
    /\ UNCHANGED again
    /\ UNCHANGED <<EEPE, lastWrite>>
    /\ UNCHANGED <<SREG_I, spm>>

DecodeNext ==
    \/ RxFirstEdge
    \/ RxSyncEdge
    \/ RxSyncDelay
    \/ RxStartWait
    \/ RxStartBit
    \/ RxDataBit
    \/ RxReturn

SpecDecode == DecodeInit /\ [][DecodeNext]_vars

(* ------------------------------------------------------------------------ *)
(* EepromWriter: eeprom_write on its own                                    *)
(* ------------------------------------------------------------------------ *)
\* addresses and values handed to eeprom_write
WriteAddresses == {0, 1, 255, 256, 510, 511, 512, 513, 1023, 1024, 32768, 65535}
WriteValues == {0, 165}

\* the EEPROM before the call: erased, or holding a byte per cell
EepromContents ==
    {[a \in 0..(EepromSize - 1) |-> Mod8 - 1],
     [a \in 0..(EepromSize - 1) |-> a % 251]}

EepromInit ==
    /\ pc = "EEPROM_WRITE"
    /\ eeprom \in EepromContents
    /\ EEPE \in BOOLEAN
    /\ lastWrite \in {[address |-> a, data |-> d, calls |-> 0] :
                        a \in WriteAddresses, d \in WriteValues}
    /\ flash = FreshFlash
    /\ start_appl_main = 0
    /\ FrameData = [i \in 0..(FRAMESIZE - 1) |-> 0]
    /\ lPress = DwellThreshold + 1
    /\ target = NoTarget
    /\ lastCommand = NOCOMMAND
    /\ installedWord = NoWord
    /\ sessionWord = NoWord
    /\ call = NoCall
    /\ line = NoLine
    /\ rx = NoRx
    /\ again = FALSE
    /\ SREG_I = 0
    /\ spm = NoSpm

\* the hardware ends the write in progress
EepromWriteEnds ==
    /\ EEPE
    /\ EEPE' = FALSE
    /\ UNCHANGED <<pc, flash, eeprom, start_appl_main, FrameData, lPress, target,
                   lastCommand, installedWord, sessionWord, call, line, rx, again,
                   lastWrite>>
    /\ UNCHANGED <<SREG_I, spm>>

\* eeprom_write(lastWrite.address, lastWrite.data), from the end of its waiting
\* loop, while (EECR & (1 << EEPE)), to its return
EepromWrite ==
    /\ pc = "EEPROM_WRITE"
    /\ ~EEPE
    /\ eeprom' = eeprom_write(eeprom, lastWrite.address, lastWrite.data)
    /\ EEPE' = TRUE
    /\ lastWrite' = [lastWrite EXCEPT !.calls = @ + 1]
    /\ pc' = "EEPROM_WRITE_DONE"
    /\ UNCHANGED <<flash, start_appl_main, FrameData, lPress, target,
                   lastCommand, installedWord, sessionWord, call, line, rx, again>>
    /\ UNCHANGED <<SREG_I, spm>>

EepromNext == EepromWriteEnds \/ EepromWrite

SpecEeprom == EepromInit /\ [][EepromNext]_vars

(* ------------------------------------------------------------------------ *)
(* FlashProgrammer: boot_program_page and pgm_write_block step by step      *)
(* ------------------------------------------------------------------------ *)
\* the I bit when a flash routine is entered: clear, as in the bootloader after
\* a reset, or set, as a caller that uses interrupts has it
EntryFlags == {0, 1}

\* the pointers runProgramm hands to pgm_write_block
BlockPointers == {0, 4096}

\* the frames whose page boot_program_page is called for
PageFrames == {f \in ProgFrames : ProgAllowed(ProgAddress(f))}

\* boot_program_page (page, buf) and pgm_write_block (flash_addr, block, size)
\* at their first statement
SpmEntries(I) ==
    {[fn |-> fn, at |-> "entry", idx |-> 0, sreg |-> 0, entry |-> I,
      busy |-> "none"] : fn \in {"boot_program_page", "pgm_write_block"}}

FlashInit ==
    /\ pc = "FLASH_ROUTINE"
    /\ SREG_I \in EntryFlags
    /\ spm \in SpmEntries(SREG_I)
    /\ \/ /\ spm.fn = "boot_program_page"
          /\ FrameData \in PageFrames
          /\ start_appl_main = 0
       \/ /\ spm.fn = "pgm_write_block"
          /\ FrameData = [i \in 0..(FRAMESIZE - 1) |-> 0]
          /\ start_appl_main \in BlockPointers
    /\ flash = FreshFlash
    /\ eeprom = [a \in 0..(EepromSize - 1) |-> Mod8 - 1]
    /\ lPress = DwellThreshold + 1
    /\ target = NoTarget
    /\ lastCommand = NOCOMMAND
    /\ installedWord = NoWord
    /\ sessionWord = NoWord
    /\ call = NoCall
    /\ line = NoLine
    /\ rx = NoRx
    /\ again = FALSE
    /\ EEPE = FALSE
    /\ lastWrite = NoWrite

\* what the steps of the flash routines leave alone
SpmFrame ==
    UNCHANGED <<pc, eeprom, FrameData, lPress, target, lastCommand,
                installedWord, sessionWord, call, line, rx, again, EEPE,
                lastWrite>>

\* boot_program_page: cli();
PageCli ==
    /\ spm.fn = "boot_program_page"
    /\ spm.at = "entry"
    /\ SREG_I' = cli
    /\ spm' = [spm EXCEPT !.at = "erase"]
    /\ UNCHANGED <<flash, start_appl_main>>
    /\ SpmFrame

\* boot_program_page: boot_page_erase(page); the erase is in progress until
\* boot_spm_busy_wait() ends
PageErase ==
    /\ spm.fn = "boot_program_page"
    /\ spm.at = "erase"
    /\ spm' = [spm EXCEPT !.at = "fill", !.busy = "erase"]
    /\ UNCHANGED <<flash, start_appl_main, SREG_I>>
    /\ SpmFrame

\* boot_program_page: one pass of the loop, boot_page_fill (page + i, w)
PageFill ==
    /\ spm.fn = "boot_program_page"
    /\ spm.at = "fill"
    /\ spm' = [spm EXCEPT !.idx = @ + 1, !.busy = "fill",
                          !.at = IF spm.idx + 1 < WordsPerPage THEN "fill"
                                 ELSE "write"]
    /\ UNCHANGED <<flash, start_appl_main, SREG_I>>
    /\ SpmFrame

\* boot_program_page: boot_page_write (page); the page buffer, filled as the
\* loop filled it, goes to the flash
PageWrite ==
    /\ spm.fn = "boot_program_page"
    /\ spm.at = "write"
    /\ LET r == boot_program_page(flash, start_appl_main,
                                  ProgAddress(FrameData), FrameData)
       IN  /\ flash' = r.flash
           /\ start_appl_main' = r.sam
    /\ spm' = [spm EXCEPT !.at = "return", !.busy = "write"]
    /\ UNCHANGED SREG_I
    /\ SpmFrame

\* boot_program_page: the last boot_spm_busy_wait() ends and the function
\* returns
PageReturn ==
    /\ spm.fn = "boot_program_page"
    /\ spm.at = "return"
    /\ spm' = [spm EXCEPT !.at = "returned", !.busy = "none"]
    /\ UNCHANGED <<flash, start_appl_main, SREG_I>>
    /\ SpmFrame

\* pgm_write_block, boot_program_page_fill: sreg = SREG; cli ();
BlockFillSave ==
    /\ spm.fn = "pgm_write_block"
    /\ spm.at = "entry"
    /\ spm' = [spm EXCEPT !.at = "fill", !.sreg = SREG_I]
    /\ SREG_I' = cli
    /\ UNCHANGED <<flash, start_appl_main>>
    /\ SpmFrame

\* pgm_write_block, boot_program_page_fill: boot_page_fill (byteaddr, word)
BlockFill ==
    /\ spm.fn = "pgm_write_block"
    /\ spm.at = "fill"
    /\ spm' = [spm EXCEPT !.at = "fill_restore", !.busy = "fill"]
    /\ UNCHANGED <<flash, start_appl_main, SREG_I>>
    /\ SpmFrame

\* pgm_write_block, boot_program_page_fill: SREG = sreg; then the next pass of
\* the loop, or the erase and write of the page
BlockFillRestore ==
    /\ spm.fn = "pgm_write_block"
    /\ spm.at = "fill_restore"
    /\ SREG_I' = spm.sreg
    /\ spm' = [spm EXCEPT !.idx = @ + 1, !.busy = "none",
                          !.at = IF spm.idx + 1 < WordsPerPage THEN "entry"
                                 ELSE "commit"]
    /\ UNCHANGED <<flash, start_appl_main>>
    /\ SpmFrame

\* pgm_write_block, boot_program_page_erase_write: eeprom_busy_wait ();
\* sreg = SREG; cli ();
BlockCommitSave ==
    /\ spm.fn = "pgm_write_block"
    /\ spm.at = "commit"
    /\ ~EEPE
    /\ spm' = [spm EXCEPT !.at = "erase", !.sreg = SREG_I]
    /\ SREG_I' = cli
    /\ UNCHANGED <<flash, start_appl_main>>
    /\ SpmFrame

\* pgm_write_block, boot_program_page_erase_write: boot_page_erase (pageaddr)
BlockErase ==
    /\ spm.fn = "pgm_write_block"
    /\ spm.at = "erase"
    /\ spm' = [spm EXCEPT !.at = "write", !.busy = "erase"]
    /\ UNCHANGED <<flash, start_appl_main, SREG_I>>
    /\ SpmFrame

\* pgm_write_block, boot_program_page_erase_write: boot_page_write (pageaddr)
BlockWrite ==
    /\ spm.fn = "pgm_write_block"
    /\ spm.at = "write"
    /\ flash' = pgm_write_block(flash, BOOTLOADER_FUNC_ADDRESS,
                                <<start_appl_main>>, PointerSize, ErasedWord)
    /\ spm' = [spm EXCEPT !.at = "commit_restore", !.busy = "write"]
    /\ UNCHANGED <<start_appl_main, SREG_I>>
    /\ SpmFrame

\* pgm_write_block, boot_program_page_erase_write: boot_rww_enable ();
\* SREG = sreg; and the function returns
BlockCommitRestore ==
    /\ spm.fn = "pgm_write_block"
    /\ spm.at = "commit_restore"
    /\ SREG_I' = spm.sreg
    /\ spm' = [spm EXCEPT !.at = "returned", !.busy = "none"]
    /\ UNCHANGED <<flash, start_appl_main>>
    /\ SpmFrame

FlashNext ==
    \/ PageCli
    \/ PageErase
    \/ PageFill
    \/ PageWrite
    \/ PageReturn
    \/ BlockFillSave
    \/ BlockFill
    \/ BlockFillRestore
    \/ BlockCommitSave
    \/ BlockErase
    \/ BlockWrite
    \/ BlockCommitRestore

SpecFlash == FlashInit /\ [][FlashNext]_vars

(* ------------------------------------------------------------------------ *)
(* Properties                                                               *)
(* ------------------------------------------------------------------------ *)
\* a step of the command loop: a frame was received and dispatched
FrameStep == pc = "COMMAND_LOOP" /\ pc' # "ENTRY_DECISION"
\* the target of the instruction RJMP k placed at address 0: PC + k + 1
IsRjmp(w) == w \div 4096 = 12
JumpTarget(w) == (w % 4096) + 1
\* the pages of the bootloader's region
BootPages == {p \in 0..(NumPages - 1) : p * SPM_PAGESIZE >= BOOTLOADER_ADDRESS}
\* the words of a frame's payload, as a page
PayloadPage(frame) ==
    [k \in 0..(WordsPerPage - 1) |->
        frame[DATAPAGESTART + 2 * k] + 256 * frame[DATAPAGESTART + 2 * k + 1]]

\* C1: whatever frames were received, the flash from the bootloader's start
\* address to the end of the flash holds what it held at the start: no page
\* erase or page write of programPage or mergeWriteBlock reaches it.
BootloaderIntact == \A p \in BootPages : flash[p] = FreshFlash[p]

\* C1 witness: a PROGCOMMAND for the first bootloader page (0x1BC0) was
\* dispatched after the page below it had been written.
BootPageFrameSeen ==
    /\ pc = "COMMAND_LOOP"
    /\ lastCommand = PROGCOMMAND
    /\ PageNumber(FrameData) = 111
    /\ flash[110] # FreshFlash[110]

\* C2: once page 0 has been rewritten, the word at flash address 0 is the jump
\* to the bootloader, and it stays so in every later state.
BootVectorKept ==
    installedWord # NoWord => pgm_read_word(flash, 0) = 49152 + 7104 \div 2 - 1

\* C2 witness: page 0 was rewritten with an application whose first word is
\* another jump, and RUNCOMMAND has run since.
BootVectorAfterRun ==
    /\ pc = "EXIT_TO_APPLICATION"
    /\ lastCommand = RUNCOMMAND
    /\ installedWord = FirstWordOf(2)
    /\ flash[0][1] = PayloadPage(MkFrame(PROGCOMMAND, 0, PAGESIZE, 0, PayloadBytes(2)))[1]

\* C3 (as claimed): whenever the word at address 0 redirects to the bootloader
\* and an application is installed, the slot below the bootloader holds the
\* entry point of that application.
EntryPointerValid ==
    (pgm_read_word(flash, 0) = BootVectorWord /\ installedWord # NoWord)
        => pgm_read_word(flash, 7104 - 2) = JumpTarget(installedWord)

\* C4: a PROGCOMMAND for page 0 whose first payload word is an RJMP to X leaves
\* the jump to the bootloader at address 0, X = (word - (0xC000 - 1)) mod 2^16
\* in start_appl_main, and every other word of page 0 as in the payload.
VectorPatch ==
    [][(/\ FrameStep
        /\ lastCommand' = PROGCOMMAND
        /\ PageNumber(FrameData') = 0
        /\ IsRjmp(PayloadPage(FrameData')[0]))
       => LET w == PayloadPage(FrameData')[0]
          IN  /\ flash'[0][0] = 49152 + 7104 \div 2 - 1
              /\ start_appl_main' = JumpTarget(w)
              /\ start_appl_main' = (w - (49152 - 1)) % 65536
              /\ \A k \in 1..(WordsPerPage - 1) :
                     flash'[0][k] = PayloadPage(FrameData')[k]]_vars

\* C4 witness: page 0 was just programmed with the payload whose first word is
\* RJMP 0xFFF.
VectorPatched ==
    /\ pc = "COMMAND_LOOP"
    /\ lastCommand = PROGCOMMAND
    /\ PageNumber(FrameData) = 0
    /\ PayloadPage(FrameData)[0] = 53247
    /\ start_appl_main = 4096

\* C5 (as claimed): when RUNCOMMAND is received after page 0 was programmed
\* with a first word jumping to X, control goes to X and the slot below the
\* bootloader holds X.
RunHandsOver ==
    (/\ pc = "EXIT_TO_APPLICATION"
     /\ lastCommand = RUNCOMMAND
     /\ sessionWord # NoWord
     /\ IsRjmp(sessionWord))
        => /\ target = JumpTarget(sessionWord)
           /\ pgm_read_word(flash, 7104 - 2) = JumpTarget(sessionWord)

\* C6 (as claimed): after RUNCOMMAND, page 0 having been programmed with a first
\* word jumping to X, the word at flash address 0 is again the jump to X.
RunRestoresVector ==
    (/\ pc = "EXIT_TO_APPLICATION"
     /\ lastCommand = RUNCOMMAND
     /\ sessionWord # NoWord
     /\ IsRjmp(sessionWord))
        => pgm_read_word(flash, 0) = sessionWord

\* C6 (amended): RUNCOMMAND leaves page 0 as it is, so the word at address 0
\* stays the jump to the bootloader; what it rewrites is the page below the
\* bootloader, where the slot at BOOTLOADER_ADDRESS - 2 receives the value of
\* start_appl_main and every other word keeps its value.
RunKeepsVector ==
    [][(FrameStep /\ lastCommand' = RUNCOMMAND)
       => /\ flash'[0] = flash[0]
          /\ flash'[0][0] = 49152 + 7104 \div 2 - 1
          /\ flash'[110][31] = start_appl_main
          /\ \A p \in 0..(NumPages - 1), k \in 0..(WordsPerPage - 1) :
                 (p # 110 \/ k # 31) => flash'[p][k] = flash[p][k]]_vars

\* C6 witness: RUNCOMMAND has run after page 0 was programmed, and the slot
\* holds the saved entry while address 0 holds the jump to the bootloader.
RunWroteSlot ==
    /\ pc = "EXIT_TO_APPLICATION"
    /\ lastCommand = RUNCOMMAND
    /\ sessionWord = FirstWordOf(1)
    /\ flash[110][31] = JumpTarget(FirstWordOf(1))
    /\ flash[0][0] # sessionWord

\* C7: a PROGCOMMAND whose computed address (64 * page number mod 2^16) is at or
\* above the bootloader start changes neither the flash nor start_appl_main
\* (nor, the flash being unchanged, the stored entry), and the controller stays
\* in the command loop.
RejectedProgChangesNothing ==
    [][(/\ FrameStep
        /\ lastCommand' = PROGCOMMAND
        /\ (64 * PageNumber(FrameData')) % 65536 >= 7104)
       => /\ flash' = flash
          /\ start_appl_main' = start_appl_main
          /\ eeprom' = eeprom
          /\ pc' = "COMMAND_LOOP"]_vars

\* C7 witness: a PROGCOMMAND for page number 1023 (address 0xFFC0) was
\* dispatched while an entry was held in start_appl_main.
RejectedProgSeen ==
    /\ pc = "COMMAND_LOOP"
    /\ lastCommand = PROGCOMMAND
    /\ PageNumber(FrameData) = 1023
    /\ start_appl_main # 0

\* C8 (as claimed): a PROGCOMMAND with page number p rewrites the page at
\* p * PAGESIZE when that product is below the bootloader start, and no page
\* at all when the product is at or above it.
PageMapping ==
    [][(FrameStep /\ lastCommand' = PROGCOMMAND)
       => LET p == PageNumber(FrameData')
          IN  IF p * 64 < 7104
              THEN \A q \in 0..(NumPages - 1) : q # p => flash'[q] = flash[q]
              ELSE flash' = flash]_vars

\* the byte k of a block given by its words
BlockByte(block, k) ==
    IF k % 2 = 0 THEN block[k \div 2 + 1] % 256 ELSE block[k \div 2 + 1] \div 256
\* the call of pgm_write_block, from its entry to its return
MergeStep == pc = "MERGE_CALL" /\ pc' = "MERGE_DONE"
\* the bytes of [flash_addr, flash_addr + size) are the first size bytes of
\* block, and every other byte of the flash is what it was
MergeEffect ==
    \A a \in 0..(8192 - 1) :
        FlashByte(flash', a) =
            IF call.flash_addr <= a /\ a < call.flash_addr + call.size
            THEN BlockByte(call.block, a - call.flash_addr)
            ELSE FlashByte(flash, a)

ReceiverStuck ==
    \/ rx.phase = "first" /\ ~HasTransition(line)
    \/ rx.phase = "sync" /\ rx.n < 16 /\ ~EdgeComes(line, rx.p)
    \/ rx.phase = "sync" /\ rx.n = 16 /\ DelayTime(rx.time) > 255
    \/ rx.phase = "start" /\ rx.p = PinAt(line, line.now) /\ ~EdgeComes(line, rx.p)
    \/ rx.phase = "data" /\ rx.n < 71 * 8 /\ ~EdgeComes(line, rx.p)
    \/ rx.phase \in {"start", "data"} /\ rx.delayTime > 255

\* the frame was received as sent: receiveFrame returns only with exactly
\* FRAMESIZE * 8 data cells taken, the last of them the last cell of the frame,
\* and with the bytes sent in the frame buffer, whatever it held before; and
\* while the whole frame is sent no waiting loop of receiveFrame goes on for
\* ever
ReceivedAsSent ==
    /\ rx.phase = "returned"
        => /\ FrameData = line.frame
           /\ rx.n = 71 * 8
           /\ rx.dataPointer = 71
           /\ line.cell = line.preamble + 71 * 8
           /\ line.cells = line.preamble + 1 + 71 * 8
    /\ line.cells = line.preamble + 1 + 71 * 8 => ~ReceiverStuck

ProgTwiceAsOnce ==
    [][(FrameStep /\ lastCommand' = 2 /\ again')
       => /\ flash' = flash
          /\ eeprom' = eeprom
          /\ start_appl_main' = start_appl_main
          /\ pgm_read_word(flash', 7104 - 2) = pgm_read_word(flash, 7104 - 2)]_vars

\* C13 witness: the PROGCOMMAND for page 0 with the payload that starts with
\* RJMP 0xFFF was dispatched twice in a row.
ProgRepeated ==
    /\ again
    /\ pc = "COMMAND_LOOP"
    /\ lastCommand = 2
    /\ PageNumber(FrameData) = 0
    /\ PayloadPage(FrameData)[0] = 53247
    /\ start_appl_main = 4096

\* C14: for every 16-bit address and value, eeprom_write changes exactly one
\* cell of the EEPROM, the cell at the address when it is below 512 and cell
\* 511 otherwise, to the value; and it does so only when no EEPROM write is in
\* progress, and never returns without the write.
EepromClamp ==
    [][/\ (pc = "EEPROM_WRITE" /\ pc' = "EEPROM_WRITE_DONE")
          => /\ ~EEPE
             /\ lastWrite'.calls = 1
             /\ \A c \in 0..511 :
                    eeprom'[c] =
                        IF c = (IF lastWrite.address < 512 THEN lastWrite.address ELSE 511)
                        THEN lastWrite.data
                        ELSE eeprom[c]
       /\ (pc = "EEPROM_WRITE" /\ pc' = pc) => eeprom' = eeprom]_vars

\* C14 witness: eeprom_write(512, 165) was called while a write was in
\* progress, and has returned with 165 in cell 511 and cell 0 as it was.
ClampedWriteDone ==
    /\ pc = "EEPROM_WRITE_DONE"
    /\ lastWrite = [address |-> 512, data |-> 165, calls |-> 1]
    /\ eeprom[511] = 165
    /\ eeprom[0] = 0
    /\ EEPE

\* C15: a frame whose command byte is 0, 1, 5 or any value from 6 to 255
\* changes neither the flash nor the EEPROM nor start_appl_main nor the slot,
\* and leaves the controller in the command loop with no transfer of control;
\* of the frame buffer, which holds the frame, the command byte is set to
\* NOCOMMAND.
IgnoredCommands ==
    [][(FrameStep /\ lastCommand' \notin {2, 3, 4})
       => /\ flash' = flash
          /\ eeprom' = eeprom
          /\ start_appl_main' = start_appl_main
          /\ target' = target
          /\ pc' = "COMMAND_LOOP"
          /\ FrameData'[0] = 0
          /\ PayloadPage(FrameData')[0] = 49167]_vars

\* C15 witness: a frame with the command byte 255 was dispatched while an
\* application was held for RUNCOMMAND.
UnknownCommandSeen ==
    /\ pc = "COMMAND_LOOP"
    /\ lastCommand = 255
    /\ FrameData[0] = 0
    /\ start_appl_main = 4096
    /\ flash[0][1] # 65535


EepromAddressMapping ==
    [][(FrameStep /\ lastCommand' = 4)
       => LET p == FrameData'[2] * 256 + FrameData'[1]
              L == FrameData'[4] * 256 + FrameData'[3]
              n == IF L < 64 THEN L ELSE 64
          IN  /\ \A i \in 0..63 :
                     (i < n /\ p * 64 + i < 511)
                         => eeprom'[p * 64 + i] = FrameData'[7 + i]
              /\ (n > 0 /\ p * 64 + n - 1 >= 511)
                     => eeprom'[511] = FrameData'[7 + n - 1]]_vars

\* C19: an EEPROMCOMMAND frame, whatever its length field, changes at most
\* PAGESIZE cells of the EEPROM, and every cell it changes receives a byte of
\* the frame's payload (FrameData[7] .. FrameData[70]).
EepromReadsPayloadOnly ==
    [][(FrameStep /\ lastCommand' = 4)
       => LET changed == {a \in 0..511 : eeprom'[a] # eeprom[a]}
          IN  /\ Cardinality(changed) <= 64
              /\ \A a \in changed :
                     \E j \in 7..70 : eeprom'[a] = FrameData'[j]]_vars

\* C20: a RUNCOMMAND received while page 0 has not been programmed since the
\* reset, on a device whose slot below the bootloader holds the entry of the
\* installed application, leaves the slot as it is and transfers control to
\* that entry.
RunKeepsInstalledEntry ==
    [][(/\ FrameStep
        /\ lastCommand' = 3
        /\ sessionWord = NoWord
        /\ installedWord # NoWord
        /\ flash[110][31] = SavedEntry(installedWord))
       => /\ flash'[110][31] = flash[110][31]
          /\ target' = flash[110][31]]_vars


\* C21: a PROGCOMMAND for a page other than page 0, whatever its payload, and
\* the last page below the bootloader included, leaves the word of the slot at
\* BOOTLOADER_ADDRESS - 2 (both bytes) as it was.
SlotKeptByPageProgramming ==
    [][(FrameStep /\ lastCommand' = 2 /\ PageNumber(FrameData') # 0)
       => /\ FlashByte(flash', 7104 - 2) = FlashByte(flash, 7104 - 2)
          /\ FlashByte(flash', 7104 - 1) = FlashByte(flash, 7104 - 1)]_vars


\* C22: once page 0 has been programmed in this session with a first word
\* RJMP to X, a frame that neither is RUNCOMMAND nor programs page 0 again and
\* after which the command loop goes on leaves start_appl_main, the entry
\* held for RUNCOMMAND, as it is; and a RUNCOMMAND, whatever frames came in
\* between, writes X to the slot below the bootloader and transfers control
\* to X.
SavedEntrySurvives ==
    [][(FrameStep /\ sessionWord # NoWord /\ IsRjmp(sessionWord))
       => /\ (/\ lastCommand' # 3
              /\ ~(lastCommand' = 2 /\ ProgAddress(FrameData') = 0)
              /\ pc' = "COMMAND_LOOP")
                 => start_appl_main' = start_appl_main
          /\ lastCommand' = 3
                 => /\ flash'[110][31] = JumpTarget(sessionWord)
                    /\ target' = JumpTarget(sessionWord)]_vars

====
